---- MODULE Spec2Model ----
(***************************************************************************)
(* A model of the Telegram video sorter bot (src/bot.py).                  *)
(*                                                                         *)
(* State: the two per-user maps of VideoSorterBot (user_sessions,          *)
(* dump_channels), the handler the update loop is running, its local       *)
(* variables and position, and the outbound transport calls it has made.   *)
(* The application is built without concurrent updates, so one handler     *)
(* runs from its first line to its return (or to the exception that        *)
(* leaves it) before the next update is taken.                             *)
(*                                                                         *)
(* Text is a sequence of tokens: a season/episode tag "[S<d>-E<d>]", a     *)
(* bracketed number "[<d>]" or "[<d>P]", a line break, or any other text.  *)
(* Digits are kept as digit sequences and converted as int() converts.     *)
(***************************************************************************)
EXTENDS Integers, Sequences, FiniteSets, TLC

\* ------------------------------------------------------------------ bounds

\* The largest number of records a session holds when one user is followed
\* through whole deliveries (SpecDispatch).
MaxFiles == 3

\* The largest number of records all sessions hold together when two users
\* interleave (Spec).
MaxShared == 2

\* The largest number of tokens in a file name when the extractor is followed
\* over all file names (SpecParse).
MaxLen == 4

\* ------------------------------------------------------------ text, tokens

\* Python's None for an Optional[int].
NoneVal == -1

Tag(ds) == [t |-> "tag", d |-> ds]
Num(ds) == [t |-> "num", d |-> ds]
NumP(ds) == [t |-> "numP", d |-> ds]
Txt == [t |-> "txt", d |-> <<>>]
NL == [t |-> "nl", d |-> <<>>]

\* int(<digits>): leading zeros carry no value.
RECURSIVE ToInt(_)
ToInt(ds) ==
    IF ds = <<>> THEN 0
    ELSE 10 * ToInt(SubSeq(ds, 1, Len(ds) - 1)) + ds[Len(ds)]

\* re.search(r'\[S\d+-E(\d+)\]', text): the leftmost tag, 0 when none.
EpisodeMatch(text) ==
    LET hits == {i \in 1..Len(text) : text[i].t = "tag"}
    IN  IF hits = {} THEN 0 ELSE CHOOSE i \in hits : \A j \in hits : i <= j

\* The bracketed numbers the tag at i can reach: '.' matches no line break.
QualityEnds(text, i) ==
    {j \in (i + 1)..Len(text) :
        /\ text[j].t \in {"num", "numP"}
        /\ \A k \in (i + 1)..(j - 1) : text[k].t # "nl"}

\* re.search(r'\[S\d+-E\d+\].*\[(\d+)(P)?\]', text): the leftmost tag that a
\* bracketed number follows on its line, and, '.*' being greedy, the last
\* such number. 0 when there is no match.
QualityMatch(text) ==
    LET starts == {i \in 1..Len(text) :
                      text[i].t = "tag" /\ QualityEnds(text, i) # {}}
    IN  IF starts = {} THEN 0
        ELSE LET i == CHOOSE s \in starts : \A s2 \in starts : s <= s2
                 ends == QualityEnds(text, i)
             IN  CHOOSE j \in ends : \A j2 \in ends : j2 <= j

common_qualities == {144, 240, 360, 480, 720, 1080, 1440, 2160}

\* VideoFile.extract_episode_number: filename first, then caption.
extract_episode_number(filename, caption) ==
    IF EpisodeMatch(filename) # 0
    THEN ToInt(filename[EpisodeMatch(filename)].d)
    ELSE IF EpisodeMatch(caption) # 0
    THEN ToInt(caption[EpisodeMatch(caption)].d)
    ELSE NoneVal

\* The value a matched field yields: the number when it is a common quality.
QualityOf(text) ==
    LET quality == ToInt(text[QualityMatch(text)].d)
    IN  IF quality \in common_qualities THEN quality ELSE NoneVal

\* The first field that yields a common quality decides.
extract_video_qualityFirstValid(filename, caption) ==
    IF QualityMatch(filename) # 0 /\ QualityOf(filename) # NoneVal THEN QualityOf(filename)
    ELSE IF QualityMatch(caption) # 0 THEN QualityOf(caption)
    ELSE NoneVal

\* VideoFile.extract_video_quality: the first field that matches decides.
extract_video_quality(filename, caption) ==
    IF QualityMatch(filename) # 0 THEN QualityOf(filename)
    ELSE IF QualityMatch(caption) # 0 THEN QualityOf(caption)
    ELSE NoneVal

\* VideoFile.__init__
VideoFile(filename, caption, file_type) ==
    [filename |-> filename,
     caption |-> caption,
     file_type |-> file_type,
     episode_number |-> extract_episode_number(filename, caption),
     video_quality |-> extract_video_quality(filename, caption)]

\* ------------------------------------------------------------------ inputs

Users == {1, 2}

\* The user followed alone through whole deliveries.
SoloUsers == {1}

\* What /dump may be given as its argument.
Channels == {"@dumpA", "@dumpB"}

\* The messages a user may upload: file name (<<>> when the message carries
\* none), caption, and whether it arrives as a document or as a video.
Uploads ==
    { [file_name |-> <<Tag(<<0, 2>>), Txt, NumP(<<7, 2, 0>>)>>, caption |-> <<>>, kind |-> "video"],
      [file_name |-> <<Tag(<<0, 1>>), Txt, NumP(<<7, 2, 0>>)>>, caption |-> <<>>, kind |-> "document"],
      [file_name |-> <<Tag(<<0, 1>>), Txt, Num(<<1, 0, 8, 0>>)>>, caption |-> <<>>, kind |-> "video"],
      [file_name |-> <<Tag(<<0, 1>>), Txt, NumP(<<3, 6, 0>>)>>, caption |-> <<>>, kind |-> "document"],
      [file_name |-> <<>>, caption |-> <<Tag(<<0, 1>>), Num(<<1, 4, 4>>)>>, kind |-> "video"],
      [file_name |-> <<Tag(<<0, 3>>), Txt, Num(<<9, 9, 9>>)>>,
       caption |-> <<Tag(<<0, 3>>), NumP(<<4, 8, 0>>)>>, kind |-> "document"] }

\* ------------------------------------------------------------------- state

VARIABLES
    user_sessions,   \* VideoSorterBot.user_sessions: user -> list of VideoFile
    dump_channels,   \* VideoSorterBot.dump_channels: user -> channel
    handler,         \* the handler the update loop is running, "" when none
    pc,              \* its position: "idle", a call site, "returned", "raised"
    user_id,         \* update.effective_user.id of the running handler, 0 when none
    entry,           \* the update being handled and the two maps as its handler found them
    file_count,      \* endsequence_command: len(files)
    valid_files,     \* endsequence_command: positions in files of the valid records
    quality_groups,  \* endsequence_command: bucket -> positions in files
    other_files,     \* endsequence_command: positions in files
    dump_chat_id,    \* endsequence_command: the binding read at dispatch, "" for None
    bucket,          \* endsequence_command: the bucket loop, 1..4 over 480, 720, 1080, other
    item,            \* endsequence_command: the position in the bucket's list
    summary,         \* what generate_summary returned
    out              \* the transport calls of the running handler, in order

maps == <<user_sessions, dump_channels>>
locals == <<file_count, valid_files, quality_groups, other_files, dump_chat_id,
            bucket, item, summary>>
vars == <<user_sessions, dump_channels, handler, pc, user_id, entry, file_count,
          valid_files, quality_groups, other_files, dump_chat_id, bucket, item,
          summary, out>>

\* One outbound call: kind is "reply" (update.message.reply_text), "primary"
\* (send to update.effective_chat), "secondary" (send to the dump channel),
\* "sleep" (asyncio.sleep) or "log" (log_action); ok is whether it returned
\* normally rather than raising.
Ev(kind, msg, q, n, ok) == [kind |-> kind, msg |-> msg, q |-> q, n |-> n, ok |-> ok]
Reply(msg, ok) == Ev("reply", msg, 0, 0, ok)

\* log_action: the send to the log channel is wrapped in try/except, so the
\* call always returns normally.
log_action(action) == Ev("log", action, 0, 0, TRUE)

NoSummary ==
    [processed |-> 0, total |-> 0, failed |-> 0, failed_line |-> FALSE, lines |-> <<>>]

\* What an update carries besides its user: the arguments of a command, or
\* the file name, caption and kind of an uploaded message.
Update(args, file_name, caption, kind) ==
    [args |-> args, file_name |-> file_name, caption |-> caption, kind |-> kind]
Command(args) == Update(args, <<>>, <<>>, "command")
Message(m) == Update(<<>>, m.file_name, m.caption, m.kind)

NoEntry == [sessions |-> <<>>, dumps |-> <<>>, update |-> Update(<<>>, <<>>, <<>>, "")]
Entry(update) == [sessions |-> user_sessions, dumps |-> dump_channels, update |-> update]

TotalFiles ==
    LET RECURSIVE Sum(_)
        Sum(S) == IF S = {} THEN 0
                  ELSE LET u == CHOOSE x \in S : TRUE
                       IN  Len(user_sessions[u]) + Sum(S \ {u})
    IN  Sum(DOMAIN user_sessions)

Put(map, k, v) == [x \in DOMAIN map \cup {k} |-> IF x = k THEN v ELSE map[x]]
Del(map, k) == [x \in DOMAIN map \ {k} |-> map[x]]

\* VideoSorterBot.__init__
Init ==
    /\ user_sessions = <<>>
    /\ dump_channels = <<>>
    /\ handler = ""
    /\ pc = "idle"
    /\ user_id = 0
    /\ entry = NoEntry
    /\ file_count = 0
    /\ valid_files = <<>>
    /\ quality_groups = <<>>
    /\ other_files = <<>>
    /\ dump_chat_id = ""
    /\ bucket = 0
    /\ item = 0
    /\ summary = NoSummary
    /\ out = <<>>

\* A handler that makes one reply and then logs: the reply raising leaves the
\* handler at once, before log_action.
ReplyThenLog(msg, action, ok) ==
    /\ out' = IF ok THEN <<Reply(msg, TRUE), log_action(action)>>
              ELSE <<Reply(msg, FALSE)>>
    /\ pc' = IF ok THEN "returned" ELSE "raised"

\* ---------------------------------------------------------------- handlers

\* /sequence keeps the list of a session that is already open.
sequence_commandKeeping(u) ==
    /\ pc = "idle"
    /\ handler' = "sequence"
    /\ user_id' = u
    /\ entry' = Entry(Command(<<>>))
    /\ user_sessions' = IF u \in DOMAIN user_sessions THEN user_sessions
                        ELSE Put(user_sessions, u, <<>>)
    /\ \E ok \in BOOLEAN : ReplyThenLog("ready", "Started sequence collection", ok)
    /\ UNCHANGED <<dump_channels, locals>>

\* /sequence also forgets the user's dump channel.
sequence_commandResetting(u) ==
    /\ pc = "idle"
    /\ handler' = "sequence"
    /\ user_id' = u
    /\ entry' = Entry(Command(<<>>))
    /\ user_sessions' = Put(user_sessions, u, <<>>)
    /\ dump_channels' = Del(dump_channels, u)
    /\ \E ok \in BOOLEAN : ReplyThenLog("ready", "Started sequence collection", ok)
    /\ UNCHANGED locals

\* /sequence
sequence_command(u) ==
    /\ pc = "idle"
    /\ handler' = "sequence"
    /\ user_id' = u
    /\ entry' = Entry(Command(<<>>))
    /\ user_sessions' = Put(user_sessions, u, <<>>)
    /\ \E ok \in BOOLEAN : ReplyThenLog("ready", "Started sequence collection", ok)
    /\ UNCHANGED <<dump_channels, locals>>

\* /dump with context.args = args
dump_command(u, args) ==
    /\ pc = "idle"
    /\ handler' = "dump"
    /\ user_id' = u
    /\ entry' = Entry(Command(args))
    /\ IF args = <<>>
       THEN /\ \E ok \in BOOLEAN :
                  /\ out' = <<Reply("dumpUsage", ok)>>
                  /\ pc' = IF ok THEN "returned" ELSE "raised"
            /\ UNCHANGED dump_channels
       ELSE /\ dump_channels' = Put(dump_channels, u, args[1])
            /\ \E ok \in BOOLEAN : ReplyThenLog("dumpSet", "Set dump channel", ok)
    /\ UNCHANGED <<user_sessions, locals>>

\* The record is stored whether or not a session is open.
ReceiveCreating(u, filename, caption, file_type, action) ==
    LET video_file == VideoFile(filename, caption, file_type)
        files == IF u \in DOMAIN user_sessions THEN user_sessions[u] ELSE <<>>
    IN  /\ user_sessions' = Put(user_sessions, u, Append(files, video_file))
        /\ \E ok \in BOOLEAN :
              /\ out' = <<Reply("useSequenceFirst", ok)>>
              /\ pc' = IF ok THEN "returned" ELSE "raised"

\* Only a record that parsed is stored.
ReceiveParsedOnly(u, filename, caption, file_type, action) ==
    IF u \notin DOMAIN user_sessions
    THEN /\ \E ok \in BOOLEAN :
               /\ out' = <<Reply("useSequenceFirst", ok)>>
               /\ pc' = IF ok THEN "returned" ELSE "raised"
         /\ UNCHANGED user_sessions
    ELSE LET video_file == VideoFile(filename, caption, file_type)
             parsed == video_file.episode_number # NoneVal
                          /\ video_file.video_quality # NoneVal
         IN  /\ user_sessions' =
                    IF parsed THEN [user_sessions EXCEPT ![u] = Append(@, video_file)]
                    ELSE user_sessions
             /\ \E ok \in BOOLEAN :
                   ReplyThenLog(IF parsed THEN "received" ELSE "receivedUnparsed",
                                action, ok)

\* The body shared by handle_document and handle_video: filename is the
\* message's file name or the handler's default.
Receive(u, filename, caption, file_type, action) ==
    IF u \notin DOMAIN user_sessions
    THEN /\ \E ok \in BOOLEAN :
               /\ out' = <<Reply("useSequenceFirst", ok)>>
               /\ pc' = IF ok THEN "returned" ELSE "raised"
         /\ UNCHANGED user_sessions
    ELSE LET video_file == VideoFile(filename, caption, file_type)
             status == IF video_file.episode_number # NoneVal
                          /\ video_file.video_quality # NoneVal
                       THEN "received" ELSE "receivedUnparsed"
         IN  /\ user_sessions' =
                    [user_sessions EXCEPT ![u] = Append(@, video_file)]
             /\ \E ok \in BOOLEAN : ReplyThenLog(status, action, ok)

\* A message carrying a document.
handle_document(u, m) ==
    /\ pc = "idle"
    /\ m.kind = "document"
    /\ handler' = "upload"
    /\ user_id' = u
    /\ entry' = Entry(Message(m))
    /\ Receive(u, IF m.file_name = <<>> THEN <<Txt>> ELSE m.file_name,
               m.caption, "document", "Uploaded document")
    /\ UNCHANGED <<dump_channels, locals>>

\* A message carrying a video.
handle_video(u, m) ==
    /\ pc = "idle"
    /\ m.kind = "video"
    /\ handler' = "upload"
    /\ user_id' = u
    /\ entry' = Entry(Message(m))
    /\ Receive(u, IF m.file_name = <<>> THEN <<Txt>> ELSE m.file_name,
               m.caption, "video", "Uploaded video")
    /\ UNCHANGED <<dump_channels, locals>>

\* ------------------------------------------------- classification, sorting

\* f.episode_number is not None and f.video_quality is not None
IsValid(f) == f.episode_number # NoneVal /\ f.video_quality # NoneVal

\* [i for i in positions if Keep(files[i])], as a list comprehension builds it.
RECURSIVE Filter(_, _, _)
Filter(files, positions, qualities) ==
    IF positions = <<>> THEN <<>>
    ELSE LET i == Head(positions)
             rest == Filter(files, Tail(positions), qualities)
         IN  IF files[i].video_quality \in qualities THEN <<i>> \o rest ELSE rest

\* The positions of the valid records of files, in list order.
RECURSIVE ValidFrom(_, _)
ValidFrom(files, i) ==
    IF i > Len(files) THEN <<>>
    ELSE IF IsValid(files[i]) THEN <<i>> \o ValidFrom(files, i + 1)
    ELSE ValidFrom(files, i + 1)

\* Python's order on tuples of integers of one length: a < b.
RECURSIVE TupleLess(_, _)
TupleLess(a, b) ==
    /\ a # <<>>
    /\ \/ Head(a) < Head(b)
       \/ Head(a) = Head(b) /\ TupleLess(Tail(a), Tail(b))

\* list.sort(key=...): a stable sort. sorted holds positions in key order;
\* x goes after every element whose key is not greater than its own.
RECURSIVE Insert(_, _, _)
Insert(sorted, x, key) ==
    IF sorted = <<>> THEN <<x>>
    ELSE IF TupleLess(key[x], key[Head(sorted)]) THEN <<x>> \o sorted
    ELSE <<Head(sorted)>> \o Insert(Tail(sorted), x, key)

RECURSIVE SortByKey(_, _)
SortByKey(positions, key) ==
    IF positions = <<>> THEN <<>>
    ELSE Insert(SortByKey(SubSeq(positions, 1, Len(positions) - 1), key),
                positions[Len(positions)], key)

\* key=lambda x: x.episode_number
EpisodeKey(files) == [i \in 1..Len(files) |-> <<files[i].episode_number>>]

\* other_files sorted like the named buckets, by episode alone.
OtherKeyEpisodeOnly(files) == [i \in 1..Len(files) |-> <<files[i].episode_number>>]

\* key=lambda x: (x.episode_number, x.video_quality or 0)
OtherKey(files) ==
    [i \in 1..Len(files) |->
        <<files[i].episode_number,
          IF files[i].video_quality \in {NoneVal, 0} THEN 0
          ELSE files[i].video_quality>>]

NamedQualities == {480, 720, 1080}

\* The delivery loops run in the opposite order.
BucketLabelReversed == <<1080, 720, 480, 0>>

\* The order of the delivery loops: 480, 720, 1080, then other_files (0).
BucketLabel == <<480, 720, 1080, 0>>

\* quality_groups after grouping and sorting.
GroupAndSort(files, valid) ==
    [q \in NamedQualities |-> SortByKey(Filter(files, valid, {q}), EpisodeKey(files))]

\* Every valid record is put into other_files, the named ones too.
OtherSortedAll(files, valid) ==
    SortByKey(Filter(files, valid, common_qualities), OtherKey(files))

\* other_files after grouping and sorting.
OtherSorted(files, valid) ==
    SortByKey(Filter(files, valid, common_qualities \ NamedQualities), OtherKey(files))

\* ----------------------------------------------------------------- summary

Min(S) == CHOOSE x \in S : \A y \in S : x <= y
Max(S) == CHOOSE x \in S : \A y \in S : y <= x

\* f"E{episodes[0]:02d}-E{episodes[-1]:02d}" if episodes else "None": the
\* range as <<first, last>> of the sorted list, <<>> for "None".
EpisodeRange(episodes) ==
    IF episodes = {} THEN <<>> ELSE <<Min(episodes), Max(episodes)>>

\* The line about failed files is always written.
generate_summaryAlwaysFailedLine(files, valid, groups, others) ==
    LET processed_count == Len(valid)
        total_files == Len(files)
        failed_count == total_files - processed_count
    IN  [processed |-> processed_count,
         total |-> total_files,
         failed |-> failed_count,
         failed_line |-> TRUE,
         lines |-> <<>>]

\* generate_summary
generate_summary(files, valid, groups, others) ==
    LET processed_count == Len(valid)
        total_files == Len(files)
        named == [b \in 1..3 |->
                    LET g == groups[BucketLabel[b]]
                    IN  IF g = <<>> THEN <<>>
                        ELSE <<[label |-> BucketLabel[b], count |-> Len(g),
                                range |-> EpisodeRange(
                                    {files[g[k]].episode_number : k \in 1..Len(g)})]>>]
        other == IF others = <<>> THEN <<>>
                 ELSE <<[label |-> 0, count |-> Len(others),
                         range |-> EpisodeRange(
                             {files[others[k]].episode_number : k \in 1..Len(others)}
                                 \ {0})]>>
        failed_count == total_files - processed_count
    IN  [processed |-> processed_count,
         total |-> total_files,
         failed |-> failed_count,
         failed_line |-> failed_count > 0,
         lines |-> named[1] \o named[2] \o named[3] \o other]

\* -------------------------------------------------------------- /endsequence

\* The list the bucket loop is in.
CurrentBucket ==
    IF bucket \in 1..3 THEN quality_groups[BucketLabel[bucket]] ELSE other_files

BucketAt(b) == IF b \in 1..3 THEN quality_groups[BucketLabel[b]] ELSE other_files

\* The non-empty buckets after bucket b, in loop order.
Later(b) == {c \in (b + 1)..4 : BucketAt(c) # <<>>}

\* Lines 138-152: the check for files and the queue confirmation.
endsequence_command(u) ==
    /\ pc = "idle"
    /\ handler' = "endsequence"
    /\ user_id' = u
    /\ entry' = Entry(Command(<<>>))
    /\ IF u \notin DOMAIN user_sessions \/ user_sessions[u] = <<>>
       THEN /\ \E ok \in BOOLEAN :
                  /\ out' = <<Reply("noFiles", ok)>>
                  /\ pc' = IF ok THEN "returned" ELSE "raised"
            /\ UNCHANGED file_count
       ELSE /\ file_count' = Len(user_sessions[u])
            /\ \E ok \in BOOLEAN :
                  /\ out' = <<Reply("queued", ok)>>
                  /\ pc' = IF ok THEN "classify" ELSE "confirm_error"
    /\ UNCHANGED <<maps, valid_files, quality_groups, other_files, dump_chat_id,
                   bucket, item, summary>>

\* Line 152: the reply made from the except clause; it is not guarded itself.
ConfirmError ==
    /\ pc = "confirm_error"
    /\ \E ok \in BOOLEAN :
          /\ out' = Append(out, Reply("queueError", ok))
          /\ pc' = IF ok THEN "classify" ELSE "raised"
    /\ UNCHANGED <<maps, handler, user_id, entry, locals>>

\* Lines 153-174: log, filter, group and sort.
Classify ==
    /\ pc = "classify"
    /\ LET files == user_sessions[user_id]
           valid == ValidFrom(files, 1)
       IN  /\ valid_files' = valid
           /\ IF valid = <<>>
              THEN /\ pc' = "no_valid"
                   /\ UNCHANGED <<quality_groups, other_files>>
              ELSE /\ pc' = "sending"
                   /\ quality_groups' = GroupAndSort(files, valid)
                   /\ other_files' = OtherSorted(files, valid)
    /\ out' = Append(out, log_action("Ended sequence"))
    /\ UNCHANGED <<maps, handler, user_id, entry, file_count, dump_chat_id, bucket, item,
                   summary>>

\* Lines 159-163
NoValidFiles ==
    /\ pc = "no_valid"
    /\ \E ok \in BOOLEAN :
          /\ out' = Append(out, Reply("noValid", ok))
          /\ pc' = IF ok THEN "returned" ELSE "raised"
          /\ user_sessions' = IF ok THEN Del(user_sessions, user_id) ELSE user_sessions
    /\ UNCHANGED <<dump_channels, handler, user_id, entry, locals>>

\* The progress message is sent but the binding is not read.
SendingNoBinding ==
    /\ pc = "sending"
    /\ \E ok \in BOOLEAN :
          /\ out' = Append(out, Reply("sending", ok))
          /\ IF ok
             THEN /\ bucket' = Min(Later(0))
                  /\ pc' = "announce"
             ELSE /\ pc' = "raised"
                  /\ UNCHANGED bucket
    /\ UNCHANGED <<maps, handler, user_id, entry, file_count, valid_files, quality_groups,
                   other_files, dump_chat_id, item, summary>>

\* Lines 176-178: the progress message, the binding, the first bucket.
Sending ==
    /\ pc = "sending"
    /\ \E ok \in BOOLEAN :
          /\ out' = Append(out, Reply("sending", ok))
          /\ IF ok
             THEN /\ dump_chat_id' = IF user_id \in DOMAIN dump_channels
                                     THEN dump_channels[user_id] ELSE ""
                  /\ bucket' = Min(Later(0))
                  /\ pc' = "announce"
             ELSE /\ pc' = "raised"
                  /\ UNCHANGED <<dump_chat_id, bucket>>
    /\ UNCHANGED <<maps, handler, user_id, entry, file_count, valid_files, quality_groups,
                   other_files, item, summary>>

\* The announcement carries the number of valid records of the session.
AnnounceAllValid ==
    /\ pc = "announce"
    /\ \E ok \in BOOLEAN :
          /\ out' = Append(out, Ev("reply", "announce", BucketLabel[bucket],
                                   Len(valid_files), ok))
          /\ pc' = IF ok THEN "primary" ELSE "raised"
          /\ item' = IF ok THEN 1 ELSE item
    /\ UNCHANGED <<maps, handler, user_id, entry, file_count, valid_files, quality_groups,
                   other_files, dump_chat_id, bucket, summary>>

\* Lines 180-184 and 219-223: the bucket's announcement.
Announce ==
    /\ pc = "announce"
    /\ \E ok \in BOOLEAN :
          /\ out' = Append(out, Ev("reply", "announce", BucketLabel[bucket],
                                   Len(CurrentBucket), ok))
          /\ pc' = IF ok THEN "primary" ELSE "raised"
          /\ item' = IF ok THEN 1 ELSE item
    /\ UNCHANGED <<maps, handler, user_id, entry, file_count, valid_files, quality_groups,
                   other_files, dump_chat_id, bucket, summary>>

\* The end of one pass of the loop body: the next record, the next non-empty
\* bucket, or the summary.
Advance ==
    IF item < Len(CurrentBucket)
    THEN /\ item' = item + 1
         /\ pc' = "primary"
         /\ UNCHANGED bucket
    ELSE IF Later(bucket) # {}
    THEN /\ bucket' = Min(Later(bucket))
         /\ item' = 0
         /\ pc' = "announce"
    ELSE /\ pc' = "summary"
         /\ UNCHANGED <<bucket, item>>

\* send_video / send_document by file_type
SendOp(i) == user_sessions[user_id][i].file_type

\* The send to the dump channel is made whatever the send to the user's chat did.
SendPrimaryThenAlwaysSecondary ==
    /\ pc = "primary"
    /\ \E ok \in BOOLEAN :
          /\ out' = Append(out, Ev("primary", SendOp(CurrentBucket[item]),
                                   BucketLabel[bucket], CurrentBucket[item], ok))
          /\ IF dump_chat_id # "" THEN pc' = "secondary" /\ UNCHANGED <<bucket, item>>
             ELSE IF ~ok THEN pc' = "notify" /\ UNCHANGED <<bucket, item>>
             ELSE Advance
    /\ UNCHANGED <<maps, handler, user_id, entry, file_count, valid_files, quality_groups,
                   other_files, dump_chat_id, summary>>

\* Lines 186-192, 200-205 and their copies for other_files: the send to the
\* user's chat.
SendPrimary ==
    /\ pc = "primary"
    /\ \E ok \in BOOLEAN :
          /\ out' = Append(out, Ev("primary", SendOp(CurrentBucket[item]),
                                   BucketLabel[bucket], CurrentBucket[item], ok))
          /\ IF ~ok THEN pc' = "notify" /\ UNCHANGED <<bucket, item>>
             ELSE IF dump_chat_id # "" THEN pc' = "secondary" /\ UNCHANGED <<bucket, item>>
             ELSE Advance
    /\ UNCHANGED <<maps, handler, user_id, entry, file_count, valid_files, quality_groups,
                   other_files, dump_chat_id, summary>>

\* Lines 193-198, 206-211 and their copies: the send to the dump channel.
SendSecondary ==
    /\ pc = "secondary"
    /\ \E ok \in BOOLEAN :
          /\ out' = Append(out, Ev("secondary", SendOp(CurrentBucket[item]),
                                   BucketLabel[bucket], CurrentBucket[item], ok))
          /\ pc' = IF ok THEN "sleep" ELSE "notify"
    /\ UNCHANGED <<maps, handler, user_id, entry, locals>>

\* Lines 199, 212 and their copies: await asyncio.sleep(1)
Sleep ==
    /\ pc = "sleep"
    /\ out' = Append(out, Ev("sleep", "", BucketLabel[bucket], CurrentBucket[item], TRUE))
    /\ Advance
    /\ UNCHANGED <<maps, handler, user_id, entry, file_count, valid_files, quality_groups,
                   other_files, dump_chat_id, summary>>

\* After the error reply the same record is tried again.
NotifyErrorRetrying ==
    /\ pc = "notify"
    /\ \E ok \in BOOLEAN :
          /\ out' = Append(out, Ev("reply", "errorSending", BucketLabel[bucket],
                                   CurrentBucket[item], ok))
          /\ pc' = IF ok THEN "primary" ELSE "raised"
    /\ UNCHANGED <<maps, handler, user_id, entry, locals>>

\* Lines 213-217 and 252-256: the except clause of the loop body.
NotifyError ==
    /\ pc = "notify"
    /\ \E ok \in BOOLEAN :
          /\ out' = Append(out, Ev("reply", "errorSending", BucketLabel[bucket],
                                   CurrentBucket[item], ok))
          /\ IF ok THEN Advance ELSE pc' = "raised" /\ UNCHANGED <<bucket, item>>
    /\ UNCHANGED <<maps, handler, user_id, entry, file_count, valid_files, quality_groups,
                   other_files, dump_chat_id, summary>>

\* The summary, then every session is cleared.
SummariseClearingAll ==
    /\ pc = "summary"
    /\ summary' = generate_summary(user_sessions[user_id], valid_files,
                                   quality_groups, other_files)
    /\ \E ok \in BOOLEAN :
          /\ out' = Append(out, Reply("summary", ok))
          /\ pc' = IF ok THEN "returned" ELSE "raised"
          /\ user_sessions' = IF ok THEN <<>> ELSE user_sessions
    /\ UNCHANGED <<dump_channels, handler, user_id, entry, file_count, valid_files,
                   quality_groups, other_files, dump_chat_id, bucket, item>>

\* Lines 258-261: the summary, then the session is cleared.
Summarise ==
    /\ pc = "summary"
    /\ summary' = generate_summary(user_sessions[user_id], valid_files,
                                   quality_groups, other_files)
    /\ \E ok \in BOOLEAN :
          /\ out' = Append(out, Reply("summary", ok))
          /\ pc' = IF ok THEN "returned" ELSE "raised"
          /\ user_sessions' = IF ok THEN Del(user_sessions, user_id) ELSE user_sessions
    /\ UNCHANGED <<dump_channels, handler, user_id, entry, file_count, valid_files,
                   quality_groups, other_files, dump_chat_id, bucket, item>>

\* The handler is left, by return or by an exception that the application
\* logs; the update loop takes the next update.
Return ==
    /\ pc \in {"returned", "raised"}
    /\ pc' = "idle"
    /\ handler' = ""
    /\ user_id' = 0
    /\ entry' = NoEntry
    /\ file_count' = 0
    /\ valid_files' = <<>>
    /\ quality_groups' = <<>>
    /\ other_files' = <<>>
    /\ dump_chat_id' = ""
    /\ bucket' = 0
    /\ item' = 0
    /\ summary' = NoSummary
    /\ out' = <<>>
    /\ UNCHANGED maps

\* The update loop: the next update, from one of the users U, is handed to
\* its handler, or the running handler takes its next step. Uploads stop once
\* the sessions hold cap records.
Dispatch(U, cap) ==
    \/ \E u \in U : sequence_command(u)
    \/ \E u \in U : \E args \in {<<>>} \cup {<<c>> : c \in Channels} :
           dump_command(u, args)
    \/ \E u \in U : \E m \in Uploads : TotalFiles < cap /\ handle_document(u, m)
    \/ \E u \in U : \E m \in Uploads : TotalFiles < cap /\ handle_video(u, m)
    \/ \E u \in U : endsequence_command(u)
    \/ ConfirmError
    \/ Classify
    \/ NoValidFiles
    \/ Sending
    \/ Announce
    \/ SendPrimary
    \/ SendSecondary
    \/ Sleep
    \/ NotifyError
    \/ Summarise
    \/ Return

Next == Dispatch(Users, MaxShared)

Spec == Init /\ [][Next]_vars

NextDispatch == Dispatch(SoloUsers, MaxFiles)

SpecDispatch == Init /\ [][NextDispatch]_vars

\* ---------------------------------------------- the extractor on its own

\* The tokens file names are built from: two tags, a bracketed quality with
\* its letter, two bracketed numbers without (one a common quality, one not),
\* other text and a line break.
Alphabet ==
    {Tag(<<0, 7>>), Tag(<<0, 0>>), NumP(<<1, 0, 8, 0>>), Num(<<3, 6, 0>>), Num(<<2>>),
     Txt, NL}

\* Every text of at most n tokens.
Texts(n) == UNION {[1..k -> Alphabet] : k \in 0..n}

Captions == {<<>>, <<Tag(<<0, 3>>), NumP(<<4, 8, 0>>)>>}

ParseMessages ==
    [file_name : Texts(MaxLen), caption : Captions, kind : {"document", "video"}]

\* One user opens a session and uploads one message of any file name; a new
\* /sequence empties the session for the next one.
NextParse ==
    \/ \E u \in SoloUsers : sequence_command(u)
    \/ /\ pc = "idle"
       /\ TotalFiles = 0
       /\ \E u \in SoloUsers : \E m \in ParseMessages : handle_document(u, m)
    \/ /\ pc = "idle"
       /\ TotalFiles = 0
       /\ \E u \in SoloUsers : \E m \in ParseMessages : handle_video(u, m)
    \/ Return

SpecParse == Init /\ [][NextParse]_vars

\* ------------------------------------------------- sessions with episode 0

\* Messages whose tag carries episode 00, next to one with a later episode and
\* one that does not parse.
SummaryUploads ==
    { [file_name |-> <<Tag(<<0, 0>>), Txt, NumP(<<3, 6, 0>>)>>, caption |-> <<>>, kind |-> "video"],
      [file_name |-> <<Tag(<<0, 2>>), Txt, NumP(<<3, 6, 0>>)>>, caption |-> <<>>, kind |-> "document"],
      [file_name |-> <<Tag(<<0, 0>>), Txt, NumP(<<1, 0, 8, 0>>)>>, caption |-> <<>>, kind |-> "video"],
      [file_name |-> <<Txt>>, caption |-> <<>>, kind |-> "document"] }

\* The update loop for one user who sends these messages.
NextSummary ==
    \/ \E u \in SoloUsers : sequence_command(u)
    \/ \E u \in SoloUsers : \E args \in {<<>>} \cup {<<c>> : c \in Channels} :
           dump_command(u, args)
    \/ \E u \in SoloUsers : \E m \in SummaryUploads :
           TotalFiles < MaxFiles /\ handle_document(u, m)
    \/ \E u \in SoloUsers : \E m \in SummaryUploads :
           TotalFiles < MaxFiles /\ handle_video(u, m)
    \/ \E u \in SoloUsers : endsequence_command(u)
    \/ ConfirmError
    \/ Classify
    \/ NoValidFiles
    \/ Sending
    \/ Announce
    \/ SendPrimary
    \/ SendSecondary
    \/ Sleep
    \/ NotifyError
    \/ Summarise
    \/ Return

SpecSummary == Init /\ [][NextSummary]_vars

\* ------------------------------------------------------------ observations

\* The list the running handler found for its user.
EntryFiles == entry.sessions[user_id]

Closing == handler = "endsequence"
Left == pc \in {"returned", "raised"}

\* The close found at least one record.
FoundRecords == Closing /\ file_count > 0

\* The bucket loops have been left through their end.
DispatchDone ==
    Closing /\ (pc = "summary" \/ (out # <<>> /\ out[Len(out)].msg = "summary"))

\* The positions of the records the calls of one kind were made for, in call order.
RECURSIVE SentOf(_, _)
SentOf(calls, kind) ==
    IF calls = <<>> THEN <<>>
    ELSE IF Head(calls).kind = kind
    THEN <<Head(calls).n>> \o SentOf(Tail(calls), kind)
    ELSE SentOf(Tail(calls), kind)

SentPrimary == SentOf(out, "primary")
SentSecondary == SentOf(out, "secondary")

Range(seq) == {seq[k] : k \in 1..Len(seq)}

ValidPositions(files) == {i \in 1..Len(files) : IsValid(files[i])}

IsPrefix(a, b) == Len(a) <= Len(b) /\ SubSeq(b, 1, Len(a)) = a

\* The place of a record's bucket in the delivery order.
Rank(f) ==
    IF f.video_quality = 480 THEN 1
    ELSE IF f.video_quality = 720 THEN 2
    ELSE IF f.video_quality = 1080 THEN 3
    ELSE 4

\* ------------------------------------------------------------------ claims

\* C1: whenever a close-session that found at least one record finishes, the
\* user's session no longer exists, however the close ends (summary sent,
\* NoValidFiles rejection, or a failed send or user notification).
C1_SessionGoneAfterClose ==
    (FoundRecords /\ Left) => user_id \notin DOMAIN user_sessions

\* C2: a close-session for a user whose session is open and empty discards the
\* session: afterwards no session exists for that user.
C2_EmptyCloseDiscards ==
    (Closing /\ Left /\ user_id \in DOMAIN entry.sessions /\ EntryFiles = <<>>)
        => user_id \notin DOMAIN user_sessions

\* C3: the primary sends of one close-session are made bucket by bucket in the
\* order 480, 720, 1080, other, and inside a bucket in sorted order (episode;
\* for other, episode then quality); once the loops are through they are
\* exactly the four sorted buckets one after the other.
C3_PrimaryOrder ==
    (Closing /\ quality_groups # <<>>) =>
        LET sent == SentPrimary
            f(k) == EntryFiles[sent[k]]
        IN  /\ \A j \in 1..Len(sent) : \A k \in 1..(j - 1) :
                  /\ Rank(f(k)) <= Rank(f(j))
                  /\ Rank(f(k)) = Rank(f(j)) =>
                         /\ f(k).episode_number <= f(j).episode_number
                         /\ (Rank(f(k)) = 4
                             /\ f(k).episode_number = f(j).episode_number)
                                => f(k).video_quality <= f(j).video_quality
            /\ IsPrefix(sent, quality_groups[480] \o quality_groups[720]
                                \o quality_groups[1080] \o other_files)
            /\ DispatchDone => Range(sent) = ValidPositions(EntryFiles)

\* Three records were uploaded in the reverse of their delivery order and all
\* three primary sends have been made.
C3_Witness ==
    /\ DispatchDone
    /\ SentPrimary = <<3, 2, 1>>
    /\ Rank(EntryFiles[3]) < Rank(EntryFiles[2])
    /\ Rank(EntryFiles[2]) = Rank(EntryFiles[1])

\* C4: if the primary send of one record fails during close-session, the
\* primary send of every record after it is still attempted, the user is
\* notified of the failed record, and the final summary is still emitted.
C4_FailureIsolated ==
    (Closing /\ Left
       /\ \E k \in 1..Len(out) : out[k].kind = "primary" /\ ~out[k].ok) =>
        /\ Range(SentPrimary) = ValidPositions(EntryFiles)
        /\ \A k \in 1..Len(out) :
              (out[k].kind = "primary" /\ ~out[k].ok) =>
                  \E j \in (k + 1)..Len(out) :
                      /\ out[j].kind = "reply"
                      /\ out[j].msg = "errorSending"
                      /\ out[j].n = out[k].n
        /\ \E k \in 1..Len(out) : out[k].kind = "reply" /\ out[k].msg = "summary"

\* The user had a secondary destination when the close began.
Bound == user_id \in DOMAIN entry.dumps

\* C5 as stated: with a secondary destination bound, a close whose loops ran
\* to their end has attempted a secondary send for every valid record,
\* whatever the outcome of the record's primary send.
C5_SecondaryForEveryRecord ==
    (DispatchDone /\ Bound) => Range(SentSecondary) = ValidPositions(EntryFiles)

\* C5 amended: with a secondary destination bound, every record whose primary
\* send returned normally is sent to the secondary destination by the next
\* call; once the loops are through, the records sent to the secondary
\* destination are exactly those whose primary send returned normally.
C5_SecondaryAfterPrimarySuccess ==
    (Closing /\ Bound /\ quality_groups # <<>>) =>
        /\ \A k \in 1..Len(out) :
              (out[k].kind = "primary" /\ out[k].ok) =>
                  IF k < Len(out)
                  THEN out[k + 1].kind = "secondary" /\ out[k + 1].n = out[k].n
                  ELSE pc = "secondary"
        /\ DispatchDone =>
              Range(SentSecondary) =
                  {out[k].n : k \in {j \in 1..Len(out) :
                                        out[j].kind = "primary" /\ out[j].ok}}

\* A close with a secondary destination ran through its loops; one record
\* went to both destinations, another failed on its primary send.
C5_Witness ==
    /\ DispatchDone
    /\ Bound
    /\ SentSecondary # <<>>
    /\ \E k \in 1..Len(out) : out[k].kind = "primary" /\ ~out[k].ok

\* Nothing was delivered or announced.
NothingDelivered ==
    \A k \in 1..Len(out) :
        /\ out[k].kind \notin {"primary", "secondary"}
        /\ out[k].msg # "announce"

\* C6: an upload or a close-session by a user with no open session is
\* rejected with a message to the user and changes no state: both maps are as
\* the handler found them and nothing is sent to any destination.
C6_NotInSessionNoChange ==
    (handler \in {"upload", "endsequence"} /\ user_id \notin DOMAIN entry.sessions) =>
        /\ user_sessions = entry.sessions
        /\ dump_channels = entry.dumps
        /\ Left
        /\ Len(out) = 1
        /\ out[1].kind = "reply"
        /\ out[1].msg = (IF handler = "upload" THEN "useSequenceFirst" ELSE "noFiles")

\* An upload was rejected while the other user held a record and a binding
\* existed.
C6_Witness ==
    /\ handler = "upload"
    /\ user_id \notin DOMAIN entry.sessions
    /\ pc = "returned"
    /\ dump_channels # <<>>
    /\ \E u \in DOMAIN user_sessions : user_sessions[u] # <<>>

\* C7: when close-session finds at least one record but none with both an
\* episode number and a quality, the user gets the NoValidFiles rejection, no
\* send and no announcement is made, and the session is discarded.
C7_NoValidDiscards ==
    (FoundRecords /\ Left /\ ValidPositions(EntryFiles) = {}) =>
        /\ \E k \in 1..Len(out) : out[k].kind = "reply" /\ out[k].msg = "noValid"
        /\ NothingDelivered
        /\ user_id \notin DOMAIN user_sessions

\* The binding of user u in a map of bindings, "" when there is none.
BindingOf(dumps, u) == IF u \in DOMAIN dumps THEN dumps[u] ELSE ""

\* C8: open-session always leaves the user with an empty record list, whatever
\* the session held before; an empty list stays empty until the user uploads,
\* and a close-session that finds it empty is rejected and delivers nothing.
C8_OpenLeavesEmpty ==
    /\ handler = "sequence" =>
          user_id \in DOMAIN user_sessions /\ user_sessions[user_id] = <<>>
    /\ \A u \in DOMAIN entry.sessions :
          (entry.sessions[u] = <<>> /\ ~(handler = "upload" /\ user_id = u)) =>
              u \in DOMAIN user_sessions /\ user_sessions[u] = <<>>
    /\ (Closing /\ user_id \in DOMAIN entry.sessions /\ EntryFiles = <<>>) =>
          /\ Left
          /\ Len(out) = 1
          /\ out[1].kind = "reply"
          /\ out[1].msg = "noFiles"

\* A second open-session has discarded the records uploaded after the first.
C8_Witness ==
    /\ handler = "sequence"
    /\ user_id \in DOMAIN entry.sessions
    /\ EntryFiles # <<>>
    /\ user_sessions[user_id] = <<>>

\* C9: a user's destination binding is changed only by that user's
\* set-destination with an identifier, which is accepted whether or not a
\* session is open; open-session, upload and close-session in every outcome
\* leave every binding as it was, and a close-session dispatches with the
\* binding in force.
C9_BindingFrame ==
    /\ \A u \in Users :
          (handler # "" /\ BindingOf(dump_channels, u) # BindingOf(entry.dumps, u)) =>
              handler = "dump" /\ user_id = u /\ entry.update.args # <<>>
    /\ (handler = "dump" /\ entry.update.args # <<>>) =>
          /\ BindingOf(dump_channels, user_id) = entry.update.args[1]
          /\ out[1].msg = "dumpSet"
    /\ (Closing /\ pc \in {"announce", "primary", "secondary", "sleep", "notify",
                           "summary"}) =>
          dump_chat_id = BindingOf(entry.dumps, user_id)

\* A close-session has delivered to the secondary destination and returned:
\* the session is gone, the binding is still there.
C9_Witness ==
    /\ Closing
    /\ pc = "returned"
    /\ SentSecondary # <<>>
    /\ user_id \notin DOMAIN user_sessions
    /\ BindingOf(dump_channels, user_id) \in Channels

\* C10: after classification each of the buckets 480, 720 and 1080 is in
\* non-decreasing order of episode number, and the other bucket in
\* non-decreasing order of (episode number, quality).
C10_BucketsSorted ==
    (Closing /\ quality_groups # <<>>) =>
        /\ \A q \in {480, 720, 1080} :
              \A k \in 1..Len(quality_groups[q]) : \A j \in 1..(k - 1) :
                  EntryFiles[quality_groups[q][j]].episode_number
                      <= EntryFiles[quality_groups[q][k]].episode_number
        /\ \A k \in 1..Len(other_files) : \A j \in 1..(k - 1) :
              LET a == EntryFiles[other_files[j]]
                  b == EntryFiles[other_files[k]]
              IN  \/ a.episode_number < b.episode_number
                  \/ /\ a.episode_number = b.episode_number
                     /\ a.video_quality <= b.video_quality

\* Two records of one episode are in the other bucket, ordered by quality
\* against the order of their upload.
C10_Witness ==
    /\ Closing
    /\ Len(other_files) = 2
    /\ other_files[1] > other_files[2]
    /\ EntryFiles[other_files[1]].episode_number
           = EntryFiles[other_files[2]].episode_number
    /\ EntryFiles[other_files[1]].video_quality
           < EntryFiles[other_files[2]].video_quality

\* How often position i occurs in a list of positions.
Occurrences(positions, i) == Cardinality({k \in 1..Len(positions) : positions[k] = i})

\* C11: every valid record appears exactly once in exactly one of the buckets
\* 480, 720, 1080, other: in the named bucket of its quality when that is 480,
\* 720 or 1080, in other otherwise; an invalid record appears in no bucket.
C11_PartitionComplete ==
    (Closing /\ quality_groups # <<>>) =>
        \A i \in 1..Len(EntryFiles) :
            LET f == EntryFiles[i]
                home == IF IsValid(f)
                        THEN (IF f.video_quality \in {480, 720, 1080}
                              THEN f.video_quality ELSE 0)
                        ELSE NoneVal
            IN  /\ \A q \in {480, 720, 1080} :
                      Occurrences(quality_groups[q], i) = (IF home = q THEN 1 ELSE 0)
                /\ Occurrences(other_files, i) = (IF home = 0 THEN 1 ELSE 0)

\* A session with a record for a named bucket, one for other and an invalid
\* one has been classified.
C11_Witness ==
    /\ Closing
    /\ quality_groups # <<>>
    /\ Len(EntryFiles) = 3
    /\ other_files # <<>>
    /\ \E q \in {480, 720, 1080} : quality_groups[q] # <<>>
    /\ \E i \in 1..3 : ~IsValid(EntryFiles[i])

\* The upload handler is running for a user with an open session: the last
\* record of the session is the one it made.
Stored == handler = "upload" /\ user_id \in DOMAIN entry.sessions
NewRecord == user_sessions[user_id][Len(user_sessions[user_id])]

\* The file name reads "[S01-E07] <any text> [1080P] <any text>".
TaggedName(name) ==
    /\ Len(name) >= 2
    /\ name[1] = Tag(<<0, 7>>)
    /\ \E j \in 2..Len(name) : name[j] = NumP(<<1, 0, 8, 0>>)

\* C12: for every file name of the form "[S01-E07] <any text> [1080P] <any
\* text>", whatever the surrounding text, the extractor yields episode 7 and
\* quality 1080.
C12_TaggedNameParses ==
    (Stored /\ TaggedName(entry.update.file_name)) =>
        NewRecord.episode_number = 7 /\ NewRecord.video_quality = 1080

\* The text has a tag and, later on the same line, a bracketed number.
AnyMatch(text) ==
    \E i \in 1..Len(text) : \E j \in (i + 1)..Len(text) :
        /\ text[i].t = "tag"
        /\ text[j].t \in {"num", "numP"}
        /\ \A k \in (i + 1)..(j - 1) : text[k].t # "nl"

\* The values of the bracketed numbers of a text.
Numbers(text) == {ToInt(text[j].d) : j \in {k \in 1..Len(text) : text[k].t \in {"num", "numP"}}}

AllowedQualities == {144, 240, 360, 480, 720, 1080, 1440, 2160}

\* C13: the first field that matches the quality pattern decides. When the
\* file name matches and holds no bracketed number of the allowed set, the
\* quality is None whatever the caption holds; when the file name matches,
\* the quality is None or one of the file name's numbers; the caption decides
\* only when the file name has no match at all.
C13_FirstMatchWins ==
    Stored =>
        LET name == NewRecord.filename
            cap == entry.update.caption
            quality == NewRecord.video_quality
        IN  /\ (AnyMatch(name) /\ Numbers(name) \cap AllowedQualities = {}) =>
                  quality = NoneVal
            /\ AnyMatch(name) => quality \in Numbers(name) \cup {NoneVal}
            /\ (~AnyMatch(name) /\ ~AnyMatch(cap)) => quality = NoneVal
            /\ (~AnyMatch(name) /\ AnyMatch(cap)) =>
                  /\ quality \in Numbers(cap) \cup {NoneVal}
                  /\ Numbers(cap) \subseteq AllowedQualities => quality # NoneVal

\* The file name matches with a number outside the allowed set, the caption
\* matches with an allowed one, and the record's quality is None.
C13_Witness ==
    /\ Stored
    /\ AnyMatch(NewRecord.filename)
    /\ Numbers(NewRecord.filename) \cap AllowedQualities = {}
    /\ AnyMatch(entry.update.caption)
    /\ Numbers(entry.update.caption) \subseteq AllowedQualities
    /\ NewRecord.video_quality = NoneVal

\* The record an upload handler builds from the message it was handed.
Uploaded ==
    VideoFile(IF entry.update.file_name = <<>> THEN <<Txt>> ELSE entry.update.file_name,
              entry.update.caption, entry.update.kind)

\* C14: a user's list changes only by an upload of that user to an open
\* session, which puts the record built from the message at the end of the
\* list whether it parsed or not and whether the acknowledgement went out or
\* not, by that user's /sequence and by the deletion that ends that user's
\* /endsequence; the list /endsequence works on is the list as the uploads
\* left it, its length is file_count and is the total of the summary.
C14_UploadsKept ==
    /\ \A u \in DOMAIN entry.sessions \ {user_id} :
           u \in DOMAIN user_sessions /\ user_sessions[u] = entry.sessions[u]
    /\ handler = "upload" =>
           IF user_id \in DOMAIN entry.sessions
           THEN user_sessions[user_id] = Append(EntryFiles, Uploaded)
           ELSE user_sessions = entry.sessions
    /\ handler = "dump" => user_sessions = entry.sessions
    /\ Closing =>
           /\ user_id \in DOMAIN user_sessions =>
                  /\ user_id \in DOMAIN entry.sessions
                  /\ user_sessions[user_id] = EntryFiles
           /\ file_count > 0 => file_count = Len(EntryFiles)
           /\ valid_files # <<>> => Range(valid_files) = ValidPositions(EntryFiles)
           /\ summary # NoSummary => summary.total = Len(EntryFiles)

\* A summary over a list of two uploads of which one did not parse.
C14_Witness ==
    /\ Closing
    /\ pc = "returned"
    /\ summary.total = 2
    /\ summary.processed = 1
    /\ \E i \in 1..2 : ~IsValid(EntryFiles[i])

\* The sends of the running handler, primary and secondary.
Sends == {k \in 1..Len(out) : out[k].kind \in {"primary", "secondary"}}

\* C15: while a handler runs for one user, every other user has the session
\* and the binding the handler found, present or absent, and every record
\* /endsequence sends is a record of the list of the user who closed.
C15_UsersIndependent ==
    handler # "" =>
        /\ \A u \in Users \ {user_id} :
               /\ (u \in DOMAIN user_sessions) = (u \in DOMAIN entry.sessions)
               /\ u \in DOMAIN user_sessions => user_sessions[u] = entry.sessions[u]
               /\ BindingOf(dump_channels, u) = BindingOf(entry.dumps, u)
        /\ Closing =>
               \A k \in Sends :
                  /\ out[k].n \in 1..Len(EntryFiles)
                  /\ out[k].msg = EntryFiles[out[k].n].file_type
                  /\ out[k].q = BucketLabel[Rank(EntryFiles[out[k].n])]

\* A close that sent a record and returned while the other user holds a
\* record and a binding.
C15_Witness ==
    /\ Closing
    /\ pc = "returned"
    /\ SentPrimary # <<>>
    /\ \E u \in Users \ {user_id} :
           /\ u \in DOMAIN user_sessions
           /\ user_sessions[u] # <<>>
           /\ u \in DOMAIN dump_channels

\* C16: in every summary the total is the number of records of the closed
\* session, processed is the number of its valid records, processed plus
\* failed is the total, and the line about failed files is there exactly when
\* failed is greater than 0.
C16_SummaryArithmetic ==
    summary # NoSummary =>
        /\ Closing
        /\ summary.total = Len(EntryFiles)
        /\ summary.processed = Cardinality(ValidPositions(EntryFiles))
        /\ summary.processed + summary.failed = summary.total
        /\ summary.failed_line <=> summary.failed > 0

\* A summary of a session of MaxFiles records of which exactly one is valid.
C16_Witness ==
    /\ Closing
    /\ Left
    /\ summary.total = MaxFiles
    /\ summary.processed = 1
    /\ summary.failed_line

\* C17: every send to the dump channel, whether it returned or raised, is
\* followed by the pacing delay before anything else is done.
C17_DelayAfterSecondary ==
    Closing =>
        \A k \in 1..Len(out) :
           out[k].kind = "secondary" =>
               IF k < Len(out)
               THEN out[k + 1].kind = "sleep" /\ out[k + 1].n = out[k].n
               ELSE pc = "sleep"

\* The announcements of the bucket with label q among the calls made so far.
Announcements(q) ==
    {k \in 1..Len(out) :
        out[k].kind = "reply" /\ out[k].msg = "announce" /\ out[k].q = q}

\* The valid records of the closed session that belong to bucket b.
InBucket(b) == {i \in ValidPositions(EntryFiles) : Rank(EntryFiles[i]) = b}

\* C18: a bucket is announced at most once, with its label and the number of
\* its records; the announcement comes after every send of the buckets before
\* it and before every send of its own records; nothing is announced or
\* sent for an empty bucket, and when the loops are through every non-empty
\* bucket has been announced.
C18_BucketAnnounced ==
    (Closing /\ file_count > 0) =>
        LET sent == Sends
            rank == [k \in sent |-> Rank(EntryFiles[out[k].n])]
            size == [b \in 1..4 |-> Cardinality(InBucket(b))]
        IN  \A b \in 1..4 :
               LET ann == Announcements(BucketLabel[b])
               IN  /\ Cardinality(ann) <= 1
                   /\ \A a \in ann :
                          /\ out[a].n = size[b]
                          /\ \A k \in sent : k < a <=> rank[k] < b
                   /\ (\E k \in sent : out[k].q = BucketLabel[b]) => ann # {}
                   /\ size[b] = 0 =>
                          /\ ann = {}
                          /\ \A k \in sent : out[k].q # BucketLabel[b]
                   /\ (DispatchDone /\ size[b] > 0) => ann # {}

\* The loops are through with two buckets announced, the second one after a
\* send of the first, and a bucket that stayed empty.
C18_Witness ==
    /\ DispatchDone
    /\ \E a, c \in 1..Len(out) : \E k \in Sends :
           /\ a < k
           /\ k < c
           /\ out[a].msg = "announce"
           /\ out[c].msg = "announce"
           /\ out[c].n = 2
    /\ InBucket(1) = {}

\* C20: a send to the dump channel comes directly after the send of the same
\* record to the user's chat, and that send returned normally; a record whose
\* send to the user's chat raised is never sent to the dump channel.
C20_SecondaryOnlyAfterPrimary ==
    Closing =>
        /\ \A k \in 1..Len(out) :
               out[k].kind = "secondary" =>
                   /\ k > 1
                   /\ out[k - 1].kind = "primary"
                   /\ out[k - 1].ok
                   /\ out[k - 1].n = out[k].n
        /\ \A j, k \in 1..Len(out) :
               (out[j].kind = "primary" /\ ~out[j].ok /\ out[k].kind = "secondary")
                   => out[j].n # out[k].n

\* With a dump channel bound, the send of one record to the user's chat
\* raised and a later record went to both destinations.
C20_Witness ==
    /\ Closing
    /\ \E j, k \in 1..Len(out) :
           /\ j < k
           /\ out[j].kind = "primary"
           /\ ~out[j].ok
           /\ out[k].kind = "secondary"
           /\ out[k].ok

\* The episode numbers of the records of the other bucket.
OtherEpisodes == {EntryFiles[i].episode_number : i \in InBucket(4)}

\* C19: a summary that was delivered for a session whose other bucket is not
\* empty has a line for other whose range runs from the least to the greatest episode number of
\* the records of that bucket.
C19_OtherRangePopulated ==
    (summary # NoSummary /\ pc = "returned" /\ InBucket(4) # {}) =>
        \E k \in 1..Len(summary.lines) :
           /\ summary.lines[k].label = 0
           /\ summary.lines[k].count = Cardinality(InBucket(4))
           /\ summary.lines[k].range = <<Min(OtherEpisodes), Max(OtherEpisodes)>>

\* C21: within one /endsequence no record of the session is sent twice to the
\* user's chat nor twice to the dump channel, a send that raised included, and
\* every record sent to either has an episode number and a quality.
C21_SentOnceValidOnly ==
    Closing =>
        /\ \A j, k \in Sends :
               (j # k /\ out[j].kind = out[k].kind) => out[j].n # out[k].n
        /\ \A k \in Sends :
               /\ out[k].n \in 1..Len(EntryFiles)
               /\ IsValid(EntryFiles[out[k].n])

\* The loops are through for a session with a record that did not parse and
\* two that did; one send to the user's chat raised and one send to the dump
\* channel raised.
C21_Witness ==
    /\ DispatchDone
    /\ Len(SentPrimary) = 2
    /\ \E i \in 1..Len(EntryFiles) : ~IsValid(EntryFiles[i])
    /\ \E k \in Sends : out[k].kind = "primary" /\ ~out[k].ok
    /\ \E k \in Sends : out[k].kind = "secondary" /\ ~out[k].ok

====
